---- MODULE Spec2Model ----
(***************************************************************************)
(* DNAcrypt: the DNA <-> PNG grayscale codec (dnapng.go) and the DNA       *)
(* one-time-pad commands (dnacrypt.go).                                    *)
(*                                                                         *)
(* A DNA sequence is a sequence of one-character strings.  An image is a   *)
(* record [w, h, pix] with pix a function from pixel coordinates <<x, y>>  *)
(* to pixels; a pixel is a record [d, R, G, B, A] of non-premultiplied     *)
(* channels at depth d (8 or 16 bits), as png.Decode returns them.         *)
(***************************************************************************)
EXTENDS Integers, Sequences, FiniteSets, TLC

VARIABLES
    cfg,          \* Config: BlockSize, BlocksPerRow, RowsPerBlock, PaddingChar, TransparentPad
    dnaSequence,  \* the sequence given to dnaToPNGGrayscale
    img,          \* the image: written by the encoder, read by the decoder
    pc,           \* position of the codec run
    err,          \* the error the codec run returned ("ok": none)
    blocksPerRow, \* pngToDNAGrayscale: imgWidth / cfg.BlockSize
    rowsOfBlocks, \* pngToDNAGrayscale: imgHeight / cfg.BlockSize
    blockRow,     \* pngToDNAGrayscale: outer loop counter
    dnaBuilder,   \* pngToDNAGrayscale: symbols decoded so far
    visited,      \* log of the blocks the decoder sampled, in visiting order
    written,      \* whether the decoder called writer.Write
    out,          \* what the decoder's writer received
    plaintext,    \* dnacrypt: bytes of the plaintext file
    keyFile,      \* dnacrypt: characters of the key file
    cipherFile,   \* dnacrypt: characters of the ciphertext file
    outputFile,   \* dnacrypt: bytes decrypt wrote
    cpc,          \* dnacrypt: position of the encrypt/decrypt pipeline
    cerr          \* dnacrypt: error of the command that ran last ("ok": none)

codecVars == <<cfg, dnaSequence, img, pc, err, blocksPerRow, rowsOfBlocks,
               blockRow, dnaBuilder, visited, written, out>>
cryptVars == <<plaintext, keyFile, cipherFile, outputFile, cpc, cerr>>
vars == <<cfg, dnaSequence, img, pc, err, blocksPerRow, rowsOfBlocks,
          blockRow, dnaBuilder, visited, written, out,
          plaintext, keyFile, cipherFile, outputFile, cpc, cerr>>

(***************************************************************************)
(* Bounds of the model.                                                    *)
(***************************************************************************)
MaxSeqLen == 4
MaxBlockSize == 2
MaxBlocksPerRow == 2
MaxRowsPerBlock == 2
MaxImgH == 2
MaxPlainLen == 1
MaxKeyExtra == 1

(***************************************************************************)
(* dnapng.go: tables and pixels                                            *)
(***************************************************************************)
DataBases == {"A", "T", "C", "G"}

dnaGrayscaleMapTie == [b \in DataBases |->
    CASE b = "A" -> 0 [] b = "T" -> 40 [] b = "C" -> 128 [] b = "G" -> 192]

dnaGrayscaleMap == [b \in DataBases |->
    CASE b = "A" -> 0 [] b = "T" -> 64 [] b = "C" -> 128 [] b = "G" -> 192]

\* dnaGrayscaleMap[base] of a Go map: the zero value for a missing key
GrayOf(base) == IF base \in DOMAIN dnaGrayscaleMap THEN dnaGrayscaleMap[base] ELSE 0

Tolerance == 20

Pixel(d, R, G, B, A) == [d |-> d, R |-> R, G |-> G, B |-> B, A |-> A]

\* color.RGBA{R: grayVal, G: grayVal, B: grayVal, A: 255}
GrayPixel(grayVal) == Pixel(8, grayVal, grayVal, grayVal, 255)

\* color.Transparent converted by the RGBA model of image.RGBA
TransparentPixel == Pixel(8, 0, 0, 0, 0)

\* the zero value of a pixel of image.NewRGBA
ZeroPixel == Pixel(8, 0, 0, 0, 0)

\* img.At(x, y).RGBA(): 16-bit alpha-premultiplied channels
\* (color.NRGBA for 8-bit images, color.NRGBA64 for 16-bit images)
RGBA(p) ==
    IF p.d = 8
    THEN [r |-> (p.R * 257 * p.A) \div 255,
          g |-> (p.G * 257 * p.A) \div 255,
          b |-> (p.B * 257 * p.A) \div 255,
          a |-> p.A * 257]
    ELSE [r |-> (p.R * p.A) \div 65535,
          g |-> (p.G * p.A) \div 65535,
          b |-> (p.B * p.A) \div 65535,
          a |-> p.A]

\* a < 0xFFFF/2
IsTransparent(c) == c.a < 65535 \div 2

IntensityRounded(c) == (((c.r + c.g + c.b) \div 3 + 128) \div 257) % 256

\* uint8((r + g + b) / 3 / 257)
Intensity(c) == (((c.r + c.g + c.b) \div 3) \div 257) % 256

(***************************************************************************)
(* findClosestDNABaseGrayscale.  Go leaves the iteration order of a map    *)
(* unspecified: order is the order in which this call ranges over          *)
(* dnaGrayscaleMap.                                                        *)
(***************************************************************************)
Orders == {o \in [1..4 -> DataBases] : \A i, j \in 1..4 : i # j => o[i] # o[j]}

AbsDiff(intensity, mappedIntensity) ==
    IF intensity > mappedIntensity
    THEN intensity - mappedIntensity
    ELSE mappedIntensity - intensity

RECURSIVE ScanBases(_, _, _, _, _)
ScanBases(intensity, order, k, minDiff, closestBase) ==
    IF k > Len(order) THEN [minDiff |-> minDiff, closestBase |-> closestBase]
    ELSE LET base == order[k]
             diff == AbsDiff(intensity, dnaGrayscaleMap[base])
         IN  IF diff < minDiff
             THEN ScanBases(intensity, order, k + 1, diff, base)
             ELSE ScanBases(intensity, order, k + 1, minDiff, closestBase)

findClosestInclusive(intensity, tolerance, order) ==
    LET s == ScanBases(intensity, order, 1, 256, "")
    IN  IF (s.minDiff % 256) >= tolerance
        THEN [base |-> "?", failed |-> TRUE, minDiff |-> s.minDiff]
        ELSE [base |-> s.closestBase, failed |-> FALSE, minDiff |-> s.minDiff]

findClosestDNABaseGrayscale(intensity, tolerance, order) ==
    LET s == ScanBases(intensity, order, 1, 256, "")
    IN  IF (s.minDiff % 256) > tolerance
        THEN [base |-> "?", failed |-> TRUE, minDiff |-> s.minDiff]
        ELSE [base |-> s.closestBase, failed |-> FALSE, minDiff |-> s.minDiff]

\* every outcome a call can have, over the iteration orders of the map
ClassifyOutcomes == [i \in 0..255 |->
    {findClosestDNABaseGrayscale(i, Tolerance, o) : o \in Orders}]

(***************************************************************************)
(* dnaToPNGGrayscale                                                       *)
(***************************************************************************)
NoImage == [w |-> 0, h |-> 0, pix |-> << >>]

\* the dx, dy loops: img.Set(x+dx, y+dy, c) for a BlockSize x BlockSize square
FillSquare(pix, x, y, size, c) ==
    [p \in DOMAIN pix |->
        IF /\ p[1] >= x /\ p[1] < x + size
           /\ p[2] >= y /\ p[2] < y + size
        THEN c ELSE pix[p]]

\* for i, base := range blockSeq
RECURSIVE PaintBlockSeq(_, _, _, _, _)
PaintBlockSeq(pix, blockSeq, i, block, c) ==
    IF i >= Len(blockSeq) THEN pix
    ELSE LET base == blockSeq[i + 1]
             col  == i % c.BlocksPerRow
             row  == (i \div c.BlocksPerRow) + (block * c.RowsPerBlock)
             x    == col * c.BlockSize
             y    == row * c.BlockSize
         IN  PaintBlockSeq(FillSquare(pix, x, y, c.BlockSize, GrayPixel(GrayOf(base))),
                           blockSeq, i + 1, block, c)

\* for block := 0; block < numBlocks; block++
RECURSIVE PaintBlocks(_, _, _, _, _)
PaintBlocks(pix, seq, block, numBlocks, c) ==
    IF block >= numBlocks THEN pix
    ELSE LET basesPerBlock == c.BlocksPerRow * c.RowsPerBlock
             start == block * basesPerBlock
             end0  == start + basesPerBlock
             end   == IF end0 > Len(seq) THEN Len(seq) ELSE end0
             blockSeq == SubSeq(seq, start + 1, end)
         IN  PaintBlocks(PaintBlockSeq(pix, blockSeq, 0, block, c),
                         seq, block + 1, numBlocks, c)

\* the whole function: its error and the image png.Encode wrote
dnaToPNGGrayscale(seq, c) ==
    IF c.BlockSize <= 0 THEN [err |-> "InvalidBlockSize", img |-> NoImage]
    ELSE IF c.BlocksPerRow <= 0 THEN [err |-> "InvalidBlocksPerRow", img |-> NoImage]
    ELSE IF c.RowsPerBlock <= 0 THEN [err |-> "InvalidRowsPerBlock", img |-> NoImage]
    ELSE
    LET basesPerBlock == c.BlocksPerRow * c.RowsPerBlock
        numBlocks == (Len(seq) + basesPerBlock - 1) \div basesPerBlock
        imgWidth  == c.BlocksPerRow * c.BlockSize
        imgHeight == numBlocks * c.RowsPerBlock * c.BlockSize
        coords    == (0..(imgWidth - 1)) \X (0..(imgHeight - 1))
        blank     == [p \in coords |-> ZeroPixel]
        filled    == IF c.TransparentPad
                     THEN [p \in coords |-> TransparentPixel]
                     ELSE blank
        painted   == PaintBlocks(filled, seq, 0, numBlocks, c)
    IN  \* png.Encode refuses an image without pixels
        IF imgWidth <= 0 \/ imgHeight <= 0
        THEN [err |-> "PngEncode", img |-> NoImage]
        ELSE [err |-> "ok", img |-> [w |-> imgWidth, h |-> imgHeight, pix |-> painted]]

(***************************************************************************)
(* pngToDNAGrayscale: the body of the innermost loop, and the loops        *)
(***************************************************************************)
\* a decoder state inside one pass of the outer loop
\* [builder, log, err]

\* lines 169-184: sample the top-left pixel of block (c, r)
VisitBlock(c, r, st) ==
    LET pixelX == c * cfg.BlockSize
        pixelY == r * cfg.BlockSize
        px     == img.pix[<<pixelX, pixelY>>]
        col16  == RGBA(px)
    IN  IF IsTransparent(col16)
        THEN {[builder |-> Append(st.builder, cfg.PaddingChar),
               log |-> Append(st.log, [x |-> pixelX, y |-> pixelY, px |-> px,
                                       kind |-> "pad", sym |-> cfg.PaddingChar,
                                       intensity |-> -1]),
               err |-> "ok"]}
        ELSE LET intensity == Intensity(col16)
             IN  {IF res.failed
                  THEN [builder |-> st.builder,
                        log |-> Append(st.log, [x |-> pixelX, y |-> pixelY, px |-> px,
                                                kind |-> "err", sym |-> res.base,
                                                intensity |-> intensity]),
                        err |-> "Unclassifiable"]
                  ELSE [builder |-> Append(st.builder, res.base),
                        log |-> Append(st.log, [x |-> pixelX, y |-> pixelY, px |-> px,
                                                kind |-> "base", sym |-> res.base,
                                                intensity |-> intensity]),
                        err |-> "ok"]
                  : res \in ClassifyOutcomes[intensity]}

\* for rowInBlock := 0; rowInBlock < cfg.RowsPerBlock; rowInBlock++
RECURSIVE RowLoop(_, _, _)
RowLoop(c, rowInBlock, st) ==
    IF st.err # "ok" THEN {st}
    ELSE IF rowInBlock >= cfg.RowsPerBlock THEN {st}
    ELSE IF blockRow + rowInBlock >= rowsOfBlocks THEN {st}
    ELSE UNION {RowLoop(c, rowInBlock + 1, s2) :
                    s2 \in VisitBlock(c, blockRow + rowInBlock, st)}

\* for col := 0; col < blocksPerRow; col++
RECURSIVE ColLoop(_, _)
ColLoop(c, st) ==
    IF st.err # "ok" THEN {st}
    ELSE IF c >= blocksPerRow THEN {st}
    ELSE UNION {ColLoop(c + 1, s2) : s2 \in RowLoop(c, 0, st)}

(***************************************************************************)
(* Inputs of a codec run                                                   *)
(***************************************************************************)
PadChars == {"N", "X"}

Config(bs, bpr, rpb, pad, tp) ==
    [BlockSize |-> bs, BlocksPerRow |-> bpr, RowsPerBlock |-> rpb,
     PaddingChar |-> pad, TransparentPad |-> tp]

\* sequences over the data bases, of length 0..n
SeqsUpTo(n) == UNION {[1..k -> DataBases] : k \in 0..n}

\* encode, then decode what was encoded: any configuration, valid or not
EncodeConfigs ==
    {Config(bs, bpr, rpb, "N", tp) :
        bs \in -1..MaxBlockSize, bpr \in -1..MaxBlocksPerRow,
        rpb \in -1..MaxRowsPerBlock, tp \in BOOLEAN}

\* decode of an image that comes from elsewhere.  A negative RowsPerBlock
\* is left out: blockRow would run down through 2^63 values before it wraps.
DecodeConfigs ==
    {Config(bs, bpr, rpb, "N", TRUE) :
        bs \in -1..MaxBlockSize, bpr \in {-1, 0, 1}, rpb \in 0..MaxRowsPerBlock}

ProbeConfigs == {Config(1, 1, 1, pad, TRUE) : pad \in PadChars}

\* pixels of foreign images: a classifiable gray, an unclassifiable gray,
\* a transparent pixel
Palette == {GrayPixel(0), GrayPixel(100), TransparentPixel}
ImgWidths == {1, 2}
GridImages ==
    UNION {{[w |-> w, h |-> h, pix |-> f] :
                f \in [(0..(w - 1)) \X (0..(h - 1)) -> Palette]} :
           w \in ImgWidths, h \in 1..MaxImgH}

\* single pixels: every opaque 8-bit gray, alpha around one half at both
\* depths, and opaque 8-bit colours
ProbePixels ==
    {GrayPixel(v) : v \in 0..255}
    \cup {Pixel(8, v, v, v, a) : v \in {0, 100, 255}, a \in {0, 1, 127, 128, 254}}
    \cup {Pixel(16, v, v, v, a) : v \in {0, 25700, 65535}, a \in {0, 32766, 32767, 32768}}
    \cup {Pixel(16, v, v, v, 65535) : v \in {0, 16448, 25700}}
    \cup {Pixel(8, r, g, b, 255) : r \in {0, 20, 21, 22, 255}, g \in {0, 20, 21, 22, 255},
                                   b \in {0, 20, 21, 22, 255}}
ProbeImages == {[w |-> 1, h |-> 1, pix |-> [p \in {<<0, 0>>} |-> px]] : px \in ProbePixels}

CodecIdle ==
    /\ err = "ok" /\ blocksPerRow = 0 /\ rowsOfBlocks = 0 /\ blockRow = 0
    /\ dnaBuilder = << >> /\ visited = << >> /\ written = FALSE /\ out = << >>

CryptIdle ==
    /\ plaintext = << >> /\ keyFile = << >> /\ cipherFile = << >>
    /\ outputFile = << >> /\ cpc = "idle" /\ cerr = "ok"

Init ==
    /\ \/ /\ pc = "encode"
          /\ cfg \in EncodeConfigs
          /\ dnaSequence \in SeqsUpTo(MaxSeqLen)
          /\ img = NoImage
       \/ /\ pc = "decode"
          /\ cfg \in DecodeConfigs
          /\ dnaSequence = << >>
          /\ img \in GridImages
       \/ /\ pc = "decode"
          /\ cfg \in ProbeConfigs
          /\ dnaSequence = << >>
          /\ img \in ProbeImages
    /\ CodecIdle
    /\ CryptIdle

(***************************************************************************)
(* Actions of the codec                                                    *)
(***************************************************************************)
\* dnaToPNGGrayscale(sequence, writer, cfg); its output is then decoded
\* with the same configuration
Encode ==
    /\ pc = "encode"
    /\ LET r == dnaToPNGGrayscale(dnaSequence, cfg)
       IN  /\ err' = r.err
           /\ img' = r.img
           /\ pc' = IF r.err = "ok" THEN "decode" ELSE "done"
    /\ UNCHANGED <<cfg, dnaSequence, blocksPerRow, rowsOfBlocks, blockRow,
                   dnaBuilder, visited, written, out>>
    /\ UNCHANGED cryptVars

\* pngToDNAGrayscale, lines 138-160: the checks before the loops
DecodeBegin ==
    /\ pc = "decode"
    /\ IF cfg.BlockSize <= 0
       THEN /\ err' = "InvalidBlockSize" /\ pc' = "done"
            /\ UNCHANGED <<blocksPerRow, rowsOfBlocks>>
       ELSE IF img.w <= 0 \/ img.h <= 0
       THEN /\ err' = "PngDecode" /\ pc' = "done"
            /\ UNCHANGED <<blocksPerRow, rowsOfBlocks>>
       ELSE IF img.w % cfg.BlockSize # 0 \/ img.h % cfg.BlockSize # 0
       THEN /\ err' = "DimensionMismatch" /\ pc' = "done"
            /\ UNCHANGED <<blocksPerRow, rowsOfBlocks>>
       ELSE /\ blocksPerRow' = img.w \div cfg.BlockSize
            /\ rowsOfBlocks' = img.h \div cfg.BlockSize
            /\ err' = "ok" /\ pc' = "outer"
    /\ blockRow' = 0
    /\ dnaBuilder' = << >>
    /\ UNCHANGED <<cfg, dnaSequence, img, visited, written, out>>
    /\ UNCHANGED cryptVars

\* line 162: the test of the outer loop
OuterTest ==
    /\ pc = "outer"
    /\ pc' = IF blockRow < rowsOfBlocks THEN "group" ELSE "write"
    /\ UNCHANGED <<cfg, dnaSequence, img, err, blocksPerRow, rowsOfBlocks, blockRow,
                   dnaBuilder, visited, written, out>>
    /\ UNCHANGED cryptVars

\* GroupBody, but flushing what was decoded when a block is unclassifiable
GroupBodyPartialWrite ==
    /\ pc = "group"
    /\ \E st \in ColLoop(0, [builder |-> dnaBuilder, log |-> visited, err |-> "ok"]) :
          /\ dnaBuilder' = st.builder
          /\ visited' = st.log
          /\ IF st.err # "ok"
             THEN /\ err' = st.err /\ pc' = "done" /\ UNCHANGED blockRow
                  /\ out' = st.builder /\ written' = TRUE
             ELSE /\ blockRow' = blockRow + cfg.RowsPerBlock
                  /\ pc' = "outer" /\ UNCHANGED <<err, out, written>>
    /\ UNCHANGED <<cfg, dnaSequence, img, blocksPerRow, rowsOfBlocks>>
    /\ UNCHANGED cryptVars

\* lines 163-186: one pass of the outer loop, then blockRow += cfg.RowsPerBlock
GroupBody ==
    /\ pc = "group"
    /\ \E st \in ColLoop(0, [builder |-> dnaBuilder, log |-> visited, err |-> "ok"]) :
          /\ dnaBuilder' = st.builder
          /\ visited' = st.log
          /\ IF st.err # "ok"
             THEN /\ err' = st.err /\ pc' = "done" /\ UNCHANGED blockRow
             ELSE /\ blockRow' = blockRow + cfg.RowsPerBlock
                  /\ pc' = "outer" /\ UNCHANGED err
    /\ UNCHANGED <<cfg, dnaSequence, img, blocksPerRow, rowsOfBlocks, written, out>>
    /\ UNCHANGED cryptVars

\* lines 189-190: writer.Write([]byte(dnaBuilder.String()))
DecodeWrite ==
    /\ pc = "write"
    /\ out' = dnaBuilder
    /\ written' = TRUE
    /\ pc' = "done"
    /\ UNCHANGED <<cfg, dnaSequence, img, err, blocksPerRow, rowsOfBlocks, blockRow,
                   dnaBuilder, visited>>
    /\ UNCHANGED cryptVars

Next ==
    \/ Encode
    \/ DecodeBegin
    \/ OuterTest
    \/ GroupBody
    \/ DecodeWrite

Spec == Init /\ [][Next]_vars

(***************************************************************************)
(* dnacrypt.go: bytes <-> DNA, XOR of DNA strings                          *)
(***************************************************************************)
Pow4(i) == CASE i = 0 -> 1 [] i = 1 -> 4 [] i = 2 -> 16 [] i = 3 -> 64

\* the switch of byteToDNA on twoBits / of binaryToDNABase on val & 0x03
TwoBitsToBase(twoBits) ==
    CASE twoBits = 0 -> "A" [] twoBits = 1 -> "T" [] twoBits = 2 -> "C" [] twoBits = 3 -> "G"

\* for i := 3; i >= 0; i-- { twoBits := (b >> (i * 2)) & 0x03 ... }
byteToDNA(b) == [k \in 1..4 |-> TwoBitsToBase((b \div Pow4(4 - k)) % 4)]

dnaBaseToBinary(base) ==
    CASE base \in {"A", "a"} -> [val |-> 0, err |-> "ok"]
      [] base \in {"T", "t"} -> [val |-> 1, err |-> "ok"]
      [] base \in {"C", "c"} -> [val |-> 2, err |-> "ok"]
      [] base \in {"G", "g"} -> [val |-> 3, err |-> "ok"]
      [] OTHER -> [val |-> 0, err |-> "InvalidBase"]

binaryToDNABase(val) == TwoBitsToBase(val % 4)

\* for _, r := range dna { ...; b = (b << 2) | val }
RECURSIVE dnaToByteLoop(_, _, _)
dnaToByteLoop(dna, k, b) ==
    IF k > Len(dna) THEN [b |-> b, err |-> "ok"]
    ELSE LET v == dnaBaseToBinary(dna[k])
         IN  IF v.err # "ok" THEN [b |-> 0, err |-> "InvalidBase"]
             ELSE dnaToByteLoop(dna, k + 1, ((b * 4) % 256) + v.val)

dnaToByte(dna) ==
    IF Len(dna) # 4 THEN [b |-> 0, err |-> "BadLength"]
    ELSE dnaToByteLoop(dna, 1, 0)

RECURSIVE textToDNA(_)
textToDNA(text) ==
    IF text = << >> THEN << >>
    ELSE byteToDNA(Head(text)) \o textToDNA(Tail(text))

RECURSIVE dnaToTextLoop(_, _, _)
dnaToTextLoop(dna, i, text) ==
    IF i >= Len(dna) THEN [text |-> text, err |-> "ok"]
    ELSE LET r == dnaToByte(SubSeq(dna, i + 1, i + 4))
         IN  IF r.err # "ok" THEN [text |-> << >>, err |-> r.err]
             ELSE dnaToTextLoop(dna, i + 4, Append(text, r.b))

dnaToText(dna) ==
    IF Len(dna) % 4 # 0 THEN [text |-> << >>, err |-> "NotMultipleOf4"]
    ELSE dnaToTextLoop(dna, 0, << >>)

\* b1 ^ b2 on two-bit values
Xor2(b1, b2) == 2 * (((b1 \div 2) + (b2 \div 2)) % 2) + ((b1 + b2) % 2)

RECURSIVE xorLoop(_, _, _, _)
xorLoop(dna1, dna2, i, result) ==
    IF i > Len(dna1) THEN [dna |-> result, err |-> "ok"]
    ELSE LET b1 == dnaBaseToBinary(dna1[i])
             b2 == dnaBaseToBinary(dna2[i])
         IN  IF b1.err # "ok" THEN [dna |-> << >>, err |-> "InvalidBase1"]
             ELSE IF b2.err # "ok" THEN [dna |-> << >>, err |-> "InvalidBase2"]
             ELSE xorLoop(dna1, dna2, i + 1,
                          Append(result, binaryToDNABase(Xor2(b1.val, b2.val))))

xorDNAStrings(dna1, dna2) ==
    IF Len(dna1) # Len(dna2) THEN [dna |-> << >>, err |-> "LengthMismatch"]
    ELSE xorLoop(dna1, dna2, 1, << >>)

\* strings.TrimSpace
Whitespace == {" ", "\n"}
RECURSIVE TrimLeft(_)
TrimLeft(s) == IF s # << >> /\ Head(s) \in Whitespace THEN TrimLeft(Tail(s)) ELSE s
RECURSIVE TrimRight(_)
TrimRight(s) ==
    IF s # << >> /\ s[Len(s)] \in Whitespace THEN TrimRight(SubSeq(s, 1, Len(s) - 1)) ELSE s
TrimSpace(s) == TrimRight(TrimLeft(s))

(***************************************************************************)
(* dnacrypt: encrypt <plaintext> <key> <out>, then decrypt <out> <key>     *)
(***************************************************************************)
PlainBytes == {0, 27, 78, 228, 255}
KeyChars == DataBases \cup {"N", "\n"}

CryptInit ==
    /\ plaintext \in UNION {[1..n -> PlainBytes] : n \in 0..MaxPlainLen}
    /\ keyFile \in UNION {[1..n -> KeyChars] : n \in 0..(4 * MaxPlainLen + MaxKeyExtra)}
    /\ cipherFile = << >>
    /\ outputFile = << >>
    /\ cpc = "encrypt"
    /\ cerr = "ok"
    /\ pc = "idle"
    /\ cfg = Config(1, 1, 1, "N", TRUE)
    /\ dnaSequence = << >>
    /\ img = NoImage
    /\ CodecIdle

\* main, case "encrypt"
EncryptCmd ==
    /\ cpc = "encrypt"
    /\ LET dnaPlaintext == textToDNA(plaintext)
           keyDNA == TrimSpace(keyFile)
       IN  IF Len(keyDNA) < Len(dnaPlaintext)
           THEN /\ cerr' = "KeyTooShort" /\ cpc' = "failed" /\ UNCHANGED cipherFile
           ELSE LET r == xorDNAStrings(dnaPlaintext, SubSeq(keyDNA, 1, Len(dnaPlaintext)))
                IN  IF r.err # "ok"
                    THEN /\ cerr' = r.err /\ cpc' = "failed" /\ UNCHANGED cipherFile
                    ELSE /\ cipherFile' = r.dna /\ cerr' = "ok" /\ cpc' = "decrypt"
    /\ UNCHANGED <<plaintext, keyFile, outputFile>>
    /\ UNCHANGED codecVars

\* main, case "decrypt"
DecryptCmd ==
    /\ cpc = "decrypt"
    /\ LET ciphertextDNA == TrimSpace(cipherFile)
           keyDNA == TrimSpace(keyFile)
       IN  IF Len(keyDNA) # Len(ciphertextDNA)
           THEN /\ cerr' = "KeyLengthMismatch" /\ cpc' = "failed" /\ UNCHANGED outputFile
           ELSE LET x == xorDNAStrings(ciphertextDNA, keyDNA)
                    t == dnaToText(x.dna)
                IN  IF x.err # "ok"
                    THEN /\ cerr' = x.err /\ cpc' = "failed" /\ UNCHANGED outputFile
                    ELSE IF t.err # "ok"
                    THEN /\ cerr' = t.err /\ cpc' = "failed" /\ UNCHANGED outputFile
                    ELSE /\ outputFile' = t.text /\ cerr' = "ok" /\ cpc' = "decrypted"
    /\ UNCHANGED <<plaintext, keyFile, cipherFile>>
    /\ UNCHANGED codecVars

CryptNext ==
    \/ EncryptCmd
    \/ DecryptCmd

CryptSpec == CryptInit /\ [][CryptNext]_vars

\* a sequential program always takes its next step
FairSpec == Spec /\ WF_vars(Next)

(***************************************************************************)
(* Properties                                                              *)
(***************************************************************************)
GroupSize == cfg.BlocksPerRow * cfg.RowsPerBlock

ValidConfig == cfg.BlockSize > 0 /\ cfg.BlocksPerRow > 0 /\ cfg.RowsPerBlock > 0

\* the run decoded the image that encoding dnaSequence under cfg produced
RoundTripDone ==
    /\ pc = "done"
    /\ img # NoImage
    /\ img = dnaToPNGGrayscale(dnaSequence, cfg).img

\* C1: round trip.  When the length of the sequence is an exact multiple
\* of BlocksPerRow x RowsPerBlock, decoding the encoded image succeeds and
\* writes exactly the original sequence.
RoundTripExact ==
    (RoundTripDone /\ Len(dnaSequence) % GroupSize = 0)
        => (err = "ok" /\ written /\ out = dnaSequence)

\* C2: padding invariant.  When the length of the sequence is not a
\* multiple of the group size, decoding the encoded image writes the
\* sequence followed by padding symbols up to the end of the last group.
PaddingInvariant ==
    (RoundTripDone /\ Len(dnaSequence) % GroupSize # 0)
        => LET numBlockGroups == (Len(dnaSequence) + GroupSize - 1) \div GroupSize
               padLen == numBlockGroups * GroupSize - Len(dnaSequence)
           IN  /\ err = "ok" /\ written
               /\ out = dnaSequence \o [k \in 1..padLen |-> cfg.PaddingChar]

\* C3: a configuration with a non-positive BlockSize, BlocksPerRow or
\* RowsPerBlock is rejected by encode and by decode: the run ends with a
\* configuration error before any loop, with no image and no output.
InvalidConfigRejected ==
    ~ValidConfig =>
        \/ pc \in {"encode", "decode"}
        \/ /\ pc = "done"
           /\ err \in {"InvalidBlockSize", "InvalidBlocksPerRow", "InvalidRowsPerBlock"}
           /\ ~written /\ out = << >> /\ visited = << >>
           /\ dnaToPNGGrayscale(dnaSequence, cfg).img = NoImage

\* an opaque 8-bit gray pixel of intensity v
IsOpaqueGray(px, v) == px.d = 8 /\ px.A = 255 /\ px.R = v /\ px.G = v /\ px.B = v

\* the documented symbol intensities
NamedIntensity(s) == CASE s = "A" -> 0 [] s = "T" -> 64 [] s = "C" -> 128 [] s = "G" -> 192

\* C4: tolerance boundary.  An opaque gray pixel at exactly 20 from a
\* symbol's intensity is classified as that symbol; at exactly 21 the
\* decode fails with the unclassifiable-pixel error.
ToleranceBoundary ==
    \A k \in 1..Len(visited) : \A s \in DataBases :
        LET e == visited[k]
            v == e.px.R
        IN  IsOpaqueGray(e.px, v) =>
              /\ (v = NamedIntensity(s) + 20 \/ v = NamedIntensity(s) - 20)
                    => (e.kind = "base" /\ e.sym = s)
              /\ (v = NamedIntensity(s) + 21 \/ v = NamedIntensity(s) - 21)
                    => (e.kind = "err" /\ pc = "done" /\ err = "Unclassifiable")

\* C4 witness: a pixel of intensity 84 = 64 + 20 was decoded as T
ToleranceBoundaryReached ==
    /\ pc = "done" /\ err = "ok" /\ written
    /\ \E k \in 1..Len(visited) :
          /\ IsOpaqueGray(visited[k].px, 84)
          /\ visited[k].kind = "base" /\ visited[k].sym = "T"
    /\ out = <<"T">>

\* alpha strictly below one half of full opacity at the pixel's depth
BelowHalfOpacity(px) == IF px.d = 8 THEN px.A <= 127 ELSE px.A <= 32767

\* C5: transparency.  A block whose sampled pixel has alpha below 50% of
\* full opacity (8-bit 0..127, 16-bit 0..32767) decodes to the padding
\* symbol without classification; every other block is classified.
TransparencyBelowHalf ==
    \A k \in 1..Len(visited) :
        LET e == visited[k]
        IN  IF BelowHalfOpacity(e.px)
            THEN e.kind = "pad" /\ e.sym = cfg.PaddingChar /\ e.intensity = -1
            ELSE e.kind # "pad"

\* the intensity is more than 20 away from every named symbol intensity
FarFromEverySymbol(i) == \A s \in DataBases : AbsDiff(i, NamedIntensity(s)) > 20

\* C6: abort without partial output.  A sampled opaque pixel farther than
\* the tolerance from every symbol stops the decode at that block with an
\* error; the writer receives data only when every block was decoded, and
\* nothing otherwise.
AbortWithoutPartialOutput ==
    /\ written => (pc = "done" /\ err = "ok" /\ out = dnaBuilder
                   /\ \A k \in 1..Len(visited) : visited[k].kind # "err")
    /\ ~written => out = << >>
    /\ \A k \in 1..Len(visited) :
          /\ (visited[k].kind # "pad" /\ FarFromEverySymbol(visited[k].intensity))
                => visited[k].kind = "err"
          /\ visited[k].kind = "err"
                => (k = Len(visited) /\ pc = "done" /\ err = "Unclassifiable" /\ ~written)

\* C6 witness: the decode failed after it had decoded earlier blocks
AbortAfterDecodedBlocks ==
    /\ pc = "done" /\ err = "Unclassifiable"
    /\ Len(dnaBuilder) > 0 /\ Len(visited) = Len(dnaBuilder) + 1
    /\ ~written /\ out = << >>

\* C7: decode terminates, whatever the image and the configuration.
DecodeTerminates == <>(pc = "done")

\* C8 as stated: the intensity of an opaque 8-bit pixel is (R + G + B) / 3
\* rounded to the nearest integer.
IntensityIsRounded ==
    \A k \in 1..Len(visited) :
        LET e == visited[k]
            sum == e.px.R + e.px.G + e.px.B
        IN  (e.px.d = 8 /\ e.px.A = 255) =>
               (3 * e.intensity - sum \in {-1, 0, 1})

\* C8 amended: the intensity of an opaque 8-bit pixel is (R + G + B) / 3
\* truncated to an integer (R + G + B = 62 gives 20).
IntensityIsTruncated ==
    \A k \in 1..Len(visited) :
        LET e == visited[k]
            sum == e.px.R + e.px.G + e.px.B
        IN  (e.px.d = 8 /\ e.px.A = 255) => e.intensity = sum \div 3

\* C8 witness: a pixel with R + G + B = 62 was classified with intensity 20
TruncatedIntensityReached ==
    /\ pc = "done" /\ err = "ok"
    /\ \E k \in 1..Len(visited) :
          /\ visited[k].px = Pixel(8, 20, 21, 21, 255)
          /\ visited[k].intensity = 20
          /\ visited[k].kind = "base" /\ visited[k].sym = "A"

\* what findClosestDNABaseGrayscale(i, 20, order) returns, over all orders
OutcomesAt20 == [i \in 0..255 |->
    {[base |-> r.base, failed |-> r.failed] :
        r \in {findClosestDNABaseGrayscale(i, 20, o) : o \in Orders}}]

\* C9: classification at tolerance 20 does not depend on the iteration
\* order of the symbol table: every order gives the outcome the decoder got.
ClassificationOrderIndependent ==
    \A k \in 1..Len(visited) :
        LET e == visited[k]
        IN  e.kind # "pad" =>
               OutcomesAt20[e.intensity] = {[base |-> e.sym, failed |-> (e.kind = "err")]}

\* C9 witness: intensity 32, equally far from A and T, was rejected
EquidistantIntensityReached ==
    /\ pc = "done" /\ err = "Unclassifiable"
    /\ \E k \in 1..Len(visited) :
          /\ visited[k].intensity = 32
          /\ AbsDiff(32, dnaGrayscaleMap["A"]) = AbsDiff(32, dnaGrayscaleMap["T"])
          /\ visited[k].kind = "err"

\* C10: one-time-pad round trip.  With a key of bases only, at least four
\* bases per plaintext byte, decrypt of the ciphertext with the same key
\* succeeds and yields the plaintext.
OneTimePadRoundTrip ==
    (/\ cpc \in {"decrypted", "failed"}
     /\ \A k \in 1..Len(keyFile) : keyFile[k] \in DataBases
     /\ Len(keyFile) >= 4 * Len(plaintext))
        => (cpc = "decrypted" /\ cerr = "ok" /\ outputFile = plaintext)

====
